---- MODULE Spec2Model ----
(***************************************************************************)
(* The buffered multipart-upload writer of the NOS storage driver          *)
(* (registry/storage/driver/nos/nos_client.go) together with the object    *)
(* store it talks to.                                                      *)
(*                                                                         *)
(* Bytes are modelled by their offset in the caller's stream: the i-th     *)
(* byte a caller hands to a writer whose Size() is z carries the value     *)
(* z + i.  Sizes are scaled: minChunkSize stands for 5 MiB.                *)
(*                                                                         *)
(* The store records sessions, their parts and the completed object.  It   *)
(* refuses calls on sessions that are not in flight and Completes that     *)
(* name parts it does not hold, and forgets the parts of a session that    *)
(* was completed or aborted; it does not enforce part order or the size    *)
(* floor, so those are properties of the writer where they hold.           *)
(* Every client call can in addition fail for transport reasons.           *)
(*                                                                         *)
(* The driver's buffer pool (getbuf, putbuf) is modelled beside the        *)
(* writer, which never calls it: its holders are threads that get a        *)
(* buffer, use it and put it back.                                         *)
(***************************************************************************)
EXTENDS Integers, Sequences, FiniteSets, TLC

VARIABLES w, store, ret, h, ops, hung, pool

vars == <<w, store, ret, h, ops, hung, pool>>

-----------------------------------------------------------------------------
(* Program constants (scaled) and bounds of the model                      *)

minChunkSize == 10

ChunkSize == 10

MaxTotal == 30

MaxOpens == 2

MaxWrites == 3

WriteLens == {5, 10, 25}

Key == <<"a">>

MAX_TYR_TIMES == 8

UploadsPageSize == 2

PartsPageSize == 3

MaxBufs == 2

Holders == {1, 2}

NoErr == "nil"

NoWriter == [none |-> TRUE]

-----------------------------------------------------------------------------
(* Helpers                                                                 *)

HasPrefix(str, prefix) ==
  Len(prefix) <= Len(str) /\ SubSeq(str, 1, Len(prefix)) = prefix

Min(a, b) == IF a < b THEN a ELSE b

RECURSIVE SumSizes(_)
SumSizes(parts) ==
  IF Len(parts) = 0 THEN 0 ELSE parts[1].Size + SumSizes(Tail(parts))

RECURSIVE Concat(_)
Concat(seqs) ==
  IF Len(seqs) = 0 THEN <<>> ELSE seqs[1] \o Concat(Tail(seqs))

Orders(S) ==
  {f \in [1..Cardinality(S) -> S] : \A x \in S : \E i \in 1..Cardinality(S) : f[i] = x}

EmptyParts == [n \in {} |-> <<>>]

(* A fate says which client call of an operation fails for transport      *)
(* reasons (0: none), how an UploadPart fails there ("err": nothing        *)
(* reached the store; "noetag": the store kept the part and the response   *)
(* carried no Etag header), and whether the calls after it go through.     *)
(* The fates of an operation are taken from the calls it issues when none  *)
(* fails: up to the failing call the operation issues the same calls.      *)
NoFail == [failAt |-> 0, kind |-> "err", restOk |-> TRUE]

Fates(calls) ==
  {NoFail} \cup
  {[failAt |-> k, kind |-> "err", restOk |-> b] : k \in 1..Len(calls), b \in BOOLEAN} \cup
  {[failAt |-> k, kind |-> "noetag", restOk |-> TRUE] :
     k \in {i \in 1..Len(calls) : calls[i].call = "UploadPart"}}

Fate(s, o) ==
  LET k == Len(s.calls) + 1
  IN  IF o.failAt = 0 \/ k < o.failAt THEN TRUE
      ELSE IF k = o.failAt THEN FALSE
      ELSE o.restOk

Logged(s, name, id, num, parts, size, e) ==
  [s EXCEPT !.calls = Append(@, [call |-> name, uploadId |-> id, partNumber |-> num,
                                  parts |-> parts, size |-> size, ok |-> e = NoErr,
                                  err |-> e])]

InFlight(s, id) ==
  id \in 1..Len(s.store.sessions) /\ s.store.sessions[id].status = "open"

-----------------------------------------------------------------------------
(* Object Store Client                                                     *)

initMulti(result) == result.UploadId

newMulti(upload) == upload.UploadId

InitMultiUpload(s, o) ==
  LET ok == Fate(s, o)
      id == Len(s.store.sessions) + 1
      s1 == IF ok
            THEN [s EXCEPT !.store.sessions =
                     Append(@, [Key |-> Key, status |-> "open", parts |-> EmptyParts])]
            ELSE s
      e  == IF ok THEN NoErr ELSE "transport"
  IN  [s |-> Logged(s1, "InitMultiUpload", IF ok THEN id ELSE 0, 0, <<>>, 0, e),
       err |-> e,
       result |-> [UploadId |-> id]]

(* contentLength is request.ContentLength: the length of a bytes.Reader    *)
(* body, 0 for a body that is a stream.                                    *)
UploadPart(s, o, uploadId, partNumber, content, contentLength) ==
  LET sent     == Fate(s, o) \/ o.kind = "noetag"
      recorded == sent /\ InFlight(s, uploadId)
      ok       == Fate(s, o) /\ recorded
      s1 == IF recorded
            THEN [s EXCEPT !.store.sessions[uploadId].parts =
                     [n \in DOMAIN @ \cup {partNumber} |->
                        IF n = partNumber THEN content ELSE @[n]]]
            ELSE s
      e  == IF ok THEN NoErr
            ELSE IF recorded THEN "No Etag Header"
            ELSE IF sent THEN "404" ELSE "transport"
  IN  [s |-> Logged(s1, "UploadPart", uploadId, partNumber, <<>>, Len(content), e),
       err |-> e,
       part |-> [PartNumber |-> partNumber, Etag |-> content, Size |-> contentLength]]

GetObject(s, o) ==
  LET ok == Fate(s, o) /\ s.store.object.exists
      e  == IF ok THEN NoErr ELSE IF Fate(s, o) THEN "404" ELSE "transport"
  IN  [s |-> Logged(s, "GetObject", 0, 0, <<>>, 0, e),
       err |-> e,
       body |-> IF ok THEN s.store.object.data ELSE <<>>]

(* Succeeds only on 206 Partial Content.                                   *)
GetObjectRange(s, o, objRange) ==
  LET ok == Fate(s, o) /\ s.store.object.exists
      e  == IF ok THEN NoErr ELSE IF Fate(s, o) THEN "status" ELSE "transport"
  IN  [s |-> Logged(s, "GetObjectRange", 0, 0, <<>>, 0, e),
       err |-> e,
       body |-> IF ok THEN s.store.object.data ELSE <<>>]

UploadPartCopy(s, o, uploadId, partNumber, srcObjRange) ==
  LET src == IF srcObjRange = "" THEN GetObjectRange(s, o, srcObjRange)
             ELSE GetObject(s, o)
  IN  IF src.err # NoErr
      THEN [s |-> src.s, err |-> src.err,
            part |-> [PartNumber |-> partNumber, Etag |-> <<>>, Size |-> 0]]
      ELSE UploadPart(src.s, o, uploadId, partNumber, src.body, 0)

CompleteMultiUpload(s, o, uploadId, uploadParts) ==
  LET held == InFlight(s, uploadId) /\
              \A i \in 1..Len(uploadParts) :
                 /\ uploadParts[i].PartNumber \in DOMAIN s.store.sessions[uploadId].parts
                 /\ s.store.sessions[uploadId].parts[uploadParts[i].PartNumber]
                      = uploadParts[i].Etag
      ok   == Fate(s, o) /\ held
      data == Concat([i \in 1..Len(uploadParts) |->
                        s.store.sessions[uploadId].parts[uploadParts[i].PartNumber]])
      s1 == IF ok
            THEN [s EXCEPT !.store.sessions[uploadId] =
                              [@ EXCEPT !.status = "completed", !.parts = EmptyParts],
                           !.store.object = [exists |-> TRUE, data |-> data]]
            ELSE s
      e  == IF ok THEN NoErr ELSE IF Fate(s, o) THEN "400" ELSE "transport"
  IN  [s |-> Logged(s1, "CompleteMultiUpload", uploadId, 0, uploadParts, 0, e),
       err |-> e]

AbortMultiUpload(s, o, uploadId) ==
  LET ok == Fate(s, o) /\ InFlight(s, uploadId)
      s1 == IF ok THEN [s EXCEPT !.store.sessions[uploadId] =
                              [@ EXCEPT !.status = "aborted", !.parts = EmptyParts]]
            ELSE s
      e  == IF ok THEN NoErr ELSE IF Fate(s, o) THEN "404" ELSE "transport"
  IN  [s |-> Logged(s1, "AbortMultiUpload", uploadId, 0, <<>>, 0, e),
       err |-> e]

TranslateToUploadParts(uploadPartIn) ==
  [i \in 1..Len(uploadPartIn) |->
     [PartNumber |-> uploadPartIn[i].PartNumber, Etag |-> uploadPartIn[i].Etag]]

(* The store lists the uploads in flight in the order they were initiated, *)
(* UploadsPageSize to a page; keyMarker is the position of the last upload *)
(* of the previous page.                                                   *)
UploadsInFlight(s) ==
  SelectSeq([i \in 1..Len(s.store.sessions) |->
               [Key |-> s.store.sessions[i].Key, UploadId |-> i]],
            LAMBDA u : s.store.sessions[u.UploadId].status = "open")

ListMultiResult(s, o, keyMarker) ==
  LET ok   == Fate(s, o)
      all  == UploadsInFlight(s)
      last == Min(keyMarker + UploadsPageSize, Len(all))
      e    == IF ok THEN NoErr ELSE "transport"
  IN  [s |-> Logged(s, "ListMultiResult", 0, 0, <<>>, 0, e),
       err |-> e,
       result |-> [Uploads |-> IF ok THEN SubSeq(all, keyMarker + 1, last) ELSE <<>>,
                   IsTruncated |-> ok /\ last < Len(all),
                   NextKeyMarker |-> last]]

RECURSIVE ListMultiLoop(_, _, _, _, _, _)
ListMultiLoop(s, o, prefix, keyMarker, i, multis) ==
  IF i > 0
  THEN LET r  == ListMultiResult(s, o, keyMarker)
           ms == multis \o SelectSeq(r.result.Uploads, LAMBDA u : HasPrefix(u.Key, prefix))
       IN  IF r.err # NoErr THEN [s |-> r.s, err |-> r.err, multis |-> <<>>]
           ELSE IF ~r.result.IsTruncated THEN [s |-> r.s, err |-> NoErr, multis |-> ms]
           ELSE ListMultiLoop(r.s, o, prefix, r.result.NextKeyMarker, i - 1, ms)
  ELSE [s |-> s, err |-> NoErr, multis |-> multis]

ListMulti(s, o, prefix, keyMarker) ==
  ListMultiLoop(s, o, prefix, keyMarker, MAX_TYR_TIMES, <<>>)

(* One page of the parts of a session, in the order the store returns      *)
(* them: at most PartsPageSize parts, IsTruncated when there are more.     *)
(* maxParts and marker are not sent, so the page is always the first.      *)
ListUploadParts(s, o, uploadId, order) ==
  LET ok == Fate(s, o) /\ InFlight(s, uploadId)
      ps == s.store.sessions[uploadId].parts
      n  == Min(Len(order), PartsPageSize)
      e  == IF ok THEN NoErr ELSE IF Fate(s, o) THEN "404" ELSE "transport"
  IN  [s |-> Logged(s, "ListUploadParts", uploadId, 0, <<>>, 0, e),
       err |-> e,
       Parts |-> IF ok
                 THEN [i \in 1..n |->
                         [PartNumber |-> order[i], Etag |-> ps[order[i]],
                          Size |-> Len(ps[order[i]])]]
                 ELSE <<>>,
       IsTruncated |-> ok /\ n < Len(order)]

parseError(err) ==
  IF err = "404" THEN "PathNotFound" ELSE err

-----------------------------------------------------------------------------
(* driver.Writer, newWriter and the writer                                 *)

newWriter(key, multi, parts) ==
  [key |-> key, multi |-> multi, parts |-> parts, size |-> SumSizes(parts),
   readyPart |-> <<>>, pendingPart |-> <<>>,
   closed |-> FALSE, committed |-> FALSE, cancelled |-> FALSE]

(* The choice of the first upload whose key starts with key.               *)
FirstWithKey_Prefix(multis, key) ==
  LET idx == {i \in 1..Len(multis) : HasPrefix(multis[i].Key, key)}
  IN  IF idx = {} THEN 0 ELSE CHOOSE i \in idx : \A j \in idx : i <= j

FirstWithKey(multis, key) ==
  LET idx == {i \in 1..Len(multis) : multis[i].Key = key}
  IN  IF idx = {} THEN 0 ELSE CHOOSE i \in idx : \A j \in idx : i <= j

(* The rest of Writer once InitMultiUpload has returned r.                  *)
Writer_Initiated(r, key) ==
  IF r.err # NoErr THEN [s |-> r.s, err |-> r.err]
  ELSE [s |-> [r.s EXCEPT !.w = newWriter(key, initMulti(r.result), <<>>)],
        err |-> NoErr]

(* The rest of Writer once ListUploadParts has returned p for upload multi. *)
Writer_Parts(p, key, multi) ==
  IF p.err # NoErr THEN [s |-> p.s, err |-> parseError(p.err)]
  ELSE [s |-> [p.s EXCEPT !.w = newWriter(key, newMulti(multi), p.Parts)],
        err |-> NoErr]

(* The rest of Writer once ListMulti has returned l: the first upload      *)
(* whose key equals key is resumed.                                        *)
Writer_Listed(l, o, key, order) ==
  LET m == FirstWithKey(l.multis, key)
  IN  IF l.err # NoErr THEN [s |-> l.s, err |-> parseError(l.err)]
      ELSE IF m = 0 THEN [s |-> l.s, err |-> "PathNotFound"]
      ELSE Writer_Parts(ListUploadParts(l.s, o, l.multis[m].UploadId, order),
                        key, l.multis[m])

Writer(s, o, key, apd, order) ==
  IF ~apd
  THEN Writer_Initiated(InitMultiUpload(s, o), key)
  ELSE Writer_Listed(ListMulti(s, o, key, 0), o, key, order)

(* The merge of a short pending part into ready (lines 1294-1297).         *)
flushPart_Merge(s) ==
  IF Len(s.w.pendingPart) < ChunkSize
  THEN [s EXCEPT !.w.readyPart = @ \o s.w.pendingPart, !.w.pendingPart = <<>>]
  ELSE s

(* The end of flushPart that records the part also when the upload failed. *)
flushPart_Uploaded_Appends(r) ==
  [s |-> [r.s EXCEPT !.w.parts = Append(@, r.part),
                     !.w.readyPart = r.s.w.pendingPart,
                     !.w.pendingPart = <<>>],
   err |-> r.err]

(* The end of flushPart that empties ready instead of moving pending to it. *)
flushPart_Uploaded_DropPending(r) ==
  IF r.err # NoErr THEN [s |-> r.s, err |-> r.err]
  ELSE [s |-> [r.s EXCEPT !.w.parts = Append(@, r.part),
                          !.w.readyPart = <<>>,
                          !.w.pendingPart = <<>>],
        err |-> NoErr]

(* The rest of flushPart once UploadPart has returned r.                   *)
flushPart_Uploaded(r) ==
  IF r.err # NoErr THEN [s |-> r.s, err |-> r.err]
  ELSE [s |-> [r.s EXCEPT !.w.parts = Append(@, r.part),
                          !.w.readyPart = r.s.w.pendingPart,
                          !.w.pendingPart = <<>>],
        err |-> NoErr]

(* The upload of the ready part of writer state s1.                        *)
flushPart_Upload(s1, o) ==
  flushPart_Uploaded(UploadPart(s1, o, s1.w.multi, Len(s1.w.parts) + 1,
                                s1.w.readyPart, Len(s1.w.readyPart)))

(* The entry of flushPart: the trail of the operation notes the lengths of *)
(* the two buffers the call finds.                                         *)
flushPart_Entered(s) ==
  [s EXCEPT !.flushes = Append(@, [ready |-> Len(s.w.readyPart),
                                   pending |-> Len(s.w.pendingPart)])]

(* flushPart without the merge of a short pending part into ready.        *)
flushPart_NoMerge(s, o) ==
  IF Len(s.w.readyPart) = 0 /\ Len(s.w.pendingPart) = 0
  THEN [s |-> flushPart_Entered(s), err |-> NoErr]
  ELSE flushPart_Upload(flushPart_Entered(s), o)

flushPart(s, o) ==
  IF Len(s.w.readyPart) = 0 /\ Len(s.w.pendingPart) = 0
  THEN [s |-> flushPart_Entered(s), err |-> NoErr]
  ELSE flushPart_Upload(flushPart_Merge(flushPart_Entered(s)), o)

(* contents.Read(w.readyPart): overwrites at most len(w.readyPart) bytes   *)
(* of the buffer, and never changes its length.                            *)
Read(buf, contents) ==
  [i \in 1..Len(buf) |-> IF i <= Len(contents) THEN contents[i] ELSE buf[i]]

(* The refill from the object that keeps the old parts list.               *)
Repair_Fetched_KeepParts(g) ==
  IF g.err # NoErr THEN [s |-> g.s, err |-> g.err]
  ELSE [s |-> [g.s EXCEPT !.w.readyPart = Read(@, g.body)], err |-> NoErr]

(* The rest of the repair once GetObject has returned g (lines 1190-1195). *)
Repair_Fetched(g) ==
  IF g.err # NoErr THEN [s |-> g.s, err |-> g.err]
  ELSE [s |-> [g.s EXCEPT !.w.parts = <<>>, !.w.readyPart = Read(@, g.body)],
        err |-> NoErr]

(* The rest of the repair once UploadPartCopy has returned u.              *)
Repair_Copied(u) ==
  IF u.err # NoErr THEN [s |-> u.s, err |-> u.err]
  ELSE [s |-> [u.s EXCEPT !.w.parts = <<u.part>>], err |-> NoErr]

(* The rest of the repair with the new session in w.multi (1188-1203).     *)
Repair_Refill(s2, o) ==
  IF s2.w.size < minChunkSize
  THEN Repair_Fetched(GetObject(s2, o))
  ELSE Repair_Copied(UploadPartCopy(s2, o, s2.w.multi, 1, ""))

(* The rest of the repair once InitMultiUpload has returned m.             *)
Repair_Initiated(m, o) ==
  IF m.err # NoErr THEN [s |-> m.s, err |-> m.err]
  ELSE Repair_Refill([m.s EXCEPT !.w.multi = initMulti(m.result)], o)

(* The rest of the repair once CompleteMultiUpload has returned c.         *)
Repair_Completed(c, o) ==
  IF c.err # NoErr
  THEN [s |-> AbortMultiUpload(c.s, o, c.s.w.multi).s, err |-> c.err]
  ELSE Repair_Initiated(InitMultiUpload(c.s, o), o)

(* The repair branch of Write (lines 1174-1203).                           *)
Repair(s, o) ==
  Repair_Completed(
    CompleteMultiUpload(s, o, s.w.multi, TranslateToUploadParts(s.w.parts)), o)

(* The return of Write that first empties pending into ready.              *)
Write_Return_Merged(s, n) ==
  [s |-> [s EXCEPT !.w.size = @ + n, !.w.readyPart = @ \o s.w.pendingPart,
                   !.w.pendingPart = <<>>],
   n |-> n, err |-> NoErr, hung |-> FALSE]

(* The return of Write after the loop (lines 1239-1240).                   *)
Write_Return(s, n) ==
  [s |-> [s EXCEPT !.w.size = @ + n], n |-> n, err |-> NoErr, hung |-> FALSE]

(* The return on a flush error that does not count the bytes.              *)
Write_FlushFailed_SizeLost(f, n) ==
  [s |-> f.s, n |-> n, err |-> f.err, hung |-> FALSE]

(* The return of Write on a flush error (lines 1229-1232).                 *)
Write_FlushFailed(f, n) ==
  [s |-> [f.s EXCEPT !.w.size = @ + n], n |-> n, err |-> f.err, hung |-> FALSE]

(* The chunking loop that flushes as soon as the input is used up, with    *)
(* whatever the pending buffer holds.                                      *)
RECURSIVE WriteLoop_FlushEarly(_, _, _, _)
WriteLoop_FlushEarly(s, o, p, n) ==
  IF Len(p) = 0
  THEN Write_Return(s, n)
  ELSE LET need1 == ChunkSize - Len(s.w.readyPart)
           take1 == IF need1 > 0 THEN Min(need1, Len(p)) ELSE 0
           s1    == [s EXCEPT !.w.readyPart = @ \o SubSeq(p, 1, take1)]
           p1    == SubSeq(p, take1 + 1, Len(p))
           n1    == n + take1
           need2 == ChunkSize - Len(s1.w.pendingPart)
       IN  IF need2 > 0
           THEN IF Len(p1) >= need2
                THEN LET s2 == [s1 EXCEPT !.w.pendingPart = @ \o SubSeq(p1, 1, need2)]
                         n2 == n1 + need2
                         f  == flushPart(s2, o)
                     IN  IF f.err # NoErr
                         THEN Write_FlushFailed(f, n2)
                         ELSE WriteLoop_FlushEarly(f.s, o, SubSeq(p1, need2 + 1, Len(p1)), n2)
                ELSE LET f == flushPart([s1 EXCEPT !.w.pendingPart = @ \o p1], o)
                     IN  IF f.err # NoErr
                         THEN Write_FlushFailed(f, n1 + Len(p1))
                         ELSE Write_Return(f.s, n1 + Len(p1))
           ELSE IF take1 = 0
                THEN [s |-> s, n |-> n, err |-> NoErr, hung |-> TRUE]
                ELSE WriteLoop_FlushEarly(s1, o, p1, n1)

(* The chunking loop of Write (lines 1206-1240).  An iteration that finds  *)
(* both buffers full and bytes left changes nothing: the loop never ends.  *)
RECURSIVE WriteLoop(_, _, _, _)
WriteLoop(s, o, p, n) ==
  IF Len(p) = 0
  THEN Write_Return(s, n)
  ELSE LET need1 == ChunkSize - Len(s.w.readyPart)
           take1 == IF need1 > 0 THEN Min(need1, Len(p)) ELSE 0
           s1    == [s EXCEPT !.w.readyPart = @ \o SubSeq(p, 1, take1)]
           p1    == SubSeq(p, take1 + 1, Len(p))
           n1    == n + take1
           need2 == ChunkSize - Len(s1.w.pendingPart)
       IN  IF need2 > 0
           THEN IF Len(p1) >= need2
                THEN LET s2 == [s1 EXCEPT !.w.pendingPart = @ \o SubSeq(p1, 1, need2)]
                         n2 == n1 + need2
                         f  == flushPart(s2, o)
                     IN  IF f.err # NoErr
                         THEN Write_FlushFailed(f, n2)
                         ELSE WriteLoop(f.s, o, SubSeq(p1, need2 + 1, Len(p1)), n2)
                ELSE WriteLoop([s1 EXCEPT !.w.pendingPart = @ \o p1], o, <<>>,
                               n1 + Len(p1))
           ELSE IF take1 = 0
                THEN [s |-> s, n |-> n, err |-> NoErr, hung |-> TRUE]
                ELSE WriteLoop(s1, o, p1, n1)

NeedsRepair(wr) ==
  Len(wr.parts) > 0 /\ wr.parts[Len(wr.parts)].Size < minChunkSize

(* The rest of Write that goes on to the loop after a failed repair.       *)
Write_Repaired_IgnoreError(r, o, p) ==
  WriteLoop(r.s, o, p, 0)

(* The rest of Write once the repair, if any, has returned r.              *)
Write_Repaired(r, o, p) ==
  IF r.err # NoErr THEN [s |-> r.s, n |-> 0, err |-> r.err, hung |-> FALSE]
  ELSE WriteLoop(r.s, o, p, 0)

(* The repair, when the last known part is short (line 1173).              *)
Write_Repair(s, o) ==
  IF NeedsRepair(s.w) THEN Repair(s, o) ELSE [s |-> s, err |-> NoErr]

(* Write without the check of cancelled.                                   *)
Write_NoCancelledCheck(s, o, p) ==
  IF s.w.closed THEN [s |-> s, n |-> 0, err |-> "already closed", hung |-> FALSE]
  ELSE IF s.w.committed THEN [s |-> s, n |-> 0, err |-> "already committed", hung |-> FALSE]
  ELSE Write_Repaired(Write_Repair(s, o), o, p)

Write(s, o, p) ==
  IF s.w.closed THEN [s |-> s, n |-> 0, err |-> "already closed", hung |-> FALSE]
  ELSE IF s.w.committed THEN [s |-> s, n |-> 0, err |-> "already committed", hung |-> FALSE]
  ELSE IF s.w.cancelled THEN [s |-> s, n |-> 0, err |-> "already cancelled", hung |-> FALSE]
  ELSE Write_Repaired(Write_Repair(s, o), o, p)

Size(wr) == wr.size

(* The rest of a Close that aborts the upload when the flush fails.        *)
Close_Flushed_Abort(f, o) ==
  IF f.err # NoErr
  THEN [s |-> AbortMultiUpload(f.s, o, f.s.w.multi).s, err |-> f.err]
  ELSE f

(* Close that aborts the upload when the flush fails.                      *)
Close_AbortOnError(s, o) ==
  IF s.w.closed THEN [s |-> s, err |-> "already closed"]
  ELSE Close_Flushed_Abort(flushPart([s EXCEPT !.w.closed = TRUE], o), o)

Close(s, o) ==
  IF s.w.closed THEN [s |-> s, err |-> "already closed"]
  ELSE flushPart([s EXCEPT !.w.closed = TRUE], o)

Cancel(s, o) ==
  IF s.w.closed THEN [s |-> s, err |-> "already closed"]
  ELSE IF s.w.committed THEN [s |-> s, err |-> "already committed"]
  ELSE LET a == AbortMultiUpload([s EXCEPT !.w.cancelled = TRUE], o, s.w.multi)
       IN  [s |-> a.s, err |-> a.err]

(* The end of Commit that returns the error of a failed Abort.             *)
Commit_Completed_AbortError(c, o) ==
  IF c.err # NoErr
  THEN LET a == AbortMultiUpload(c.s, o, c.s.w.multi)
       IN  [s |-> a.s, err |-> IF a.err # NoErr THEN a.err ELSE c.err]
  ELSE [s |-> c.s, err |-> NoErr]

(* The rest of Commit once CompleteMultiUpload has returned c.             *)
Commit_Completed(c, o) ==
  IF c.err # NoErr
  THEN [s |-> AbortMultiUpload(c.s, o, c.s.w.multi).s, err |-> c.err]
  ELSE [s |-> c.s, err |-> NoErr]

(* The completion of the upload of writer state s1 (lines 1278-1283).      *)
Commit_Complete(s1, o) ==
  Commit_Completed(
    CompleteMultiUpload(s1, o, s1.w.multi, TranslateToUploadParts(s1.w.parts)), o)

(* The rest of Commit once flushPart has returned f.                       *)
Commit_Flushed(f, o) ==
  IF f.err # NoErr THEN [s |-> f.s, err |-> f.err]
  ELSE Commit_Complete([f.s EXCEPT !.w.committed = TRUE], o)

(* Commit without the check of cancelled.                                  *)
Commit_NoCancelledCheck(s, o) ==
  IF s.w.closed THEN [s |-> s, err |-> "already closed"]
  ELSE IF s.w.committed THEN [s |-> s, err |-> "already committed"]
  ELSE Commit_Flushed(flushPart(s, o), o)

(* Commit without the flush of the buffers.                                *)
Commit_NoFlush(s, o) ==
  IF s.w.closed THEN [s |-> s, err |-> "already closed"]
  ELSE IF s.w.committed THEN [s |-> s, err |-> "already committed"]
  ELSE IF s.w.cancelled THEN [s |-> s, err |-> "already cancelled"]
  ELSE Commit_Complete([s EXCEPT !.w.committed = TRUE], o)

Commit(s, o) ==
  IF s.w.closed THEN [s |-> s, err |-> "already closed"]
  ELSE IF s.w.committed THEN [s |-> s, err |-> "already committed"]
  ELSE IF s.w.cancelled THEN [s |-> s, err |-> "already cancelled"]
  ELSE Commit_Flushed(flushPart(s, o), o)

-----------------------------------------------------------------------------
(* The buffer pool of the driver (lines 723-724, 829-831, 1121-1129).      *)
(* pool.mem holds the byte slices made so far, pool.idle the ones that are *)
(* in the sync.Pool, pool.hold what each holder has in hand: holder x      *)
(* marks the bytes it writes with x; 0 is the zero byte.                   *)
zeros == [i \in 1..ChunkSize |-> 0]

NoBuf == 0

PoolInit ==
  [idle |-> {}, mem |-> <<>>,
   hold |-> [x \in Holders |-> [pc |-> "none", buf |-> NoBuf]]]

(* d.pool.New: make([]byte, d.ChunkSize), handed to holder x.              *)
getbuf_New(pl, x) ==
  [pl EXCEPT !.mem = Append(@, [i \in 1..ChunkSize |-> 0]),
             !.hold[x] = [pc |-> "held", buf |-> Len(pl.mem) + 1]]

(* A Get that hands out a pooled buffer and leaves it in the pool.         *)
getbuf_Peek(pl, x, id) ==
  [pl EXCEPT !.hold[x] = [pc |-> "held", buf |-> id]]

(* d.pool.Get() that finds buffer id in the pool: Get removes it.          *)
getbuf_Taken(pl, x, id) ==
  [pl EXCEPT !.idle = @ \ {id}, !.hold[x] = [pc |-> "held", buf |-> id]]

(* copy(p, d.zeros): copies min(len(p), len(d.zeros)) bytes.               *)
copy(dst, src) ==
  [i \in 1..Len(dst) |-> IF i <= Len(src) THEN src[i] ELSE dst[i]]

(* putbuf, first statement (line 1127).                                    *)
putbuf_Copy(pl, x) ==
  [pl EXCEPT !.mem[pl.hold[x].buf] = copy(@, zeros), !.hold[x].pc = "copied"]

(* putbuf, second statement (line 1128): the holder keeps no reference.    *)
putbuf_Put(pl, x) ==
  [pl EXCEPT !.idle = @ \cup {pl.hold[x].buf},
             !.hold[x] = [pc |-> "none", buf |-> NoBuf]]

(* getbuf: sync.Pool's Get returns a pooled item or, at its choice, a new  *)
(* one from New.                                                           *)
GetBuf(x) ==
  /\ pool.hold[x].pc = "none"
  /\ \/ \E id \in pool.idle : pool' = getbuf_Taken(pool, x, id)
     \/ /\ Len(pool.mem) < MaxBufs
        /\ pool' = getbuf_New(pool, x)
  /\ UNCHANGED <<w, store, ret, h, ops, hung>>

(* The lengths of the slice a holder passes on: the buffer it got, a       *)
(* shorter reslice of it, or a longer one it grew by append (which moves   *)
(* the bytes to a new array that takes the place of the old one).          *)
BufLens == {ChunkSize - 1, ChunkSize, ChunkSize + 1}

(* A holder fills the buffer in its hand with its own bytes.               *)
UseBuf(x) ==
  /\ pool.hold[x].pc = "held"
  /\ \E len \in BufLens :
       pool' = [pool EXCEPT !.mem[pool.hold[x].buf] = [i \in 1..len |-> x]]
  /\ UNCHANGED <<w, store, ret, h, ops, hung>>

PutBufCopy(x) ==
  /\ pool.hold[x].pc = "held"
  /\ pool' = putbuf_Copy(pool, x)
  /\ UNCHANGED <<w, store, ret, h, ops, hung>>

PutBufPut(x) ==
  /\ pool.hold[x].pc = "copied"
  /\ pool' = putbuf_Put(pool, x)
  /\ UNCHANGED <<w, store, ret, h, ops, hung>>

(* sync.Pool may drop any pooled item at any time.                         *)
PoolDrop ==
  /\ \E id \in pool.idle : pool' = [pool EXCEPT !.idle = @ \ {id}]
  /\ UNCHANGED <<w, store, ret, h, ops, hung>>

-----------------------------------------------------------------------------
(* State machine: one caller, one writer at a time; the caller opens the   *)
(* next writer once it has closed, committed or cancelled the previous     *)
(* one.  ret is what the last operation returned and the client calls it   *)
(* issued; h is the history of the current writer.                         *)

NoHistory ==
  [apd |-> FALSE, initParts |-> <<>>, initSize |-> 0, writes |-> 0, sumN |-> 0, failed |-> FALSE,
   repairs |-> 0, uploaded |-> FALSE]

Terminal(wr) == wr.closed \/ wr.committed \/ wr.cancelled

HasWriter == w # NoWriter /\ ~hung

SomeFailed(calls) == \E i \in 1..Len(calls) : ~calls[i].ok

(* A Write has carried the repair through when its GetObject succeeded or  *)
(* its copy (GetObjectRange, then UploadPart of part 1) succeeded.         *)
RepairDone(calls) ==
  \E i \in 1..Len(calls) :
     /\ calls[i].ok
     /\ \/ calls[i].call = "GetObject"
        \/ /\ calls[i].call = "GetObjectRange"
           /\ i < Len(calls) /\ calls[i + 1].call = "UploadPart" /\ calls[i + 1].ok

(* UploadPart calls that carry the writer's buffer (not the copy).         *)
FlushUploads(calls) ==
  {i \in 1..Len(calls) :
     /\ calls[i].call = "UploadPart"
     /\ ~(i > 1 /\ calls[i - 1].call = "GetObjectRange")}

Start(st) == [w |-> w, store |-> st, calls |-> <<>>, flushes |-> <<>>]

OrdersFor(st) ==
  LET all == UploadsInFlight([store |-> st])
      m   == FirstWithKey(all, Key)
  IN  IF m = 0 THEN {<<>>} ELSE Orders(DOMAIN st.sessions[all[m].UploadId].parts)

Init ==
  /\ w = NoWriter
  /\ store = [sessions |-> <<>>, object |-> [exists |-> FALSE, data |-> <<>>]]
  /\ ret = [op |-> "none", len |-> 0, n |-> 0, err |-> NoErr, calls |-> <<>>,
            flushes |-> <<>>]
  /\ h = NoHistory
  /\ ops = [opens |-> 0, writes |-> 0]
  /\ hung = FALSE
  /\ pool = PoolInit

(* The calls an operation issues when none fails for transport reasons:    *)
(* the fates that matter fail one of these.                                *)
Calls(r) == r.s.calls

(* The state after Writer has returned r.                                  *)
Opened(r, apd) ==
  /\ store' = r.s.store
  /\ ret' = [op |-> "Writer", len |-> 0, n |-> 0, err |-> r.err, calls |-> r.s.calls,
             flushes |-> r.s.flushes]
  /\ IF r.err = NoErr
     THEN /\ w' = r.s.w
          /\ h' = [NoHistory EXCEPT !.apd = apd, !.initSize = Size(r.s.w),
                     !.initParts = [i \in 1..Len(r.s.w.parts) |-> r.s.w.parts[i].Size]]
     ELSE UNCHANGED <<w, h>>

DoOpen ==
  /\ ~hung
  /\ w # NoWriter => Terminal(w)
  /\ ops.opens < MaxOpens
  /\ \E apd \in BOOLEAN, order \in OrdersFor(store) :
       \E o \in Fates(Calls(Writer(Start(store), NoFail, Key, apd, order))) :
          Opened(Writer(Start(store), o, Key, apd, order), apd)
  /\ ops' = [ops EXCEPT !.opens = @ + 1]
  /\ hung' = hung
  /\ pool' = pool

(* The state after Write of len bytes has returned r, or hangs.            *)
Written(r, len) ==
  /\ w' = r.s.w
  /\ store' = r.s.store
  /\ hung' = r.hung
  /\ ret' = [op |-> "Write", len |-> len, n |-> r.n,
             err |-> IF r.hung THEN "no return" ELSE r.err,
             calls |-> r.s.calls, flushes |-> r.s.flushes]
  /\ h' = [h EXCEPT !.writes = @ + 1,
                    !.sumN = @ + (IF r.hung THEN 0 ELSE r.n),
                    !.failed = @ \/ SomeFailed(r.s.calls),
                    !.repairs = @ + (IF RepairDone(r.s.calls) THEN 1 ELSE 0),
                    !.uploaded = @ \/ FlushUploads(r.s.calls) # {}]

(* The bytes of a Write of len bytes, tagged with their stream offsets.    *)
Bytes(len) == [i \in 1..len |-> Size(w) + i]

DoWrite ==
  /\ HasWriter
  /\ ops.writes < MaxWrites
  /\ \E len \in WriteLens :
       /\ Size(w) + len <= MaxTotal
       /\ \E o \in Fates(Calls(Write(Start(store), NoFail, Bytes(len)))) :
            Written(Write(Start(store), o, Bytes(len)), len)
  /\ ops' = [ops EXCEPT !.writes = @ + 1]
  /\ pool' = pool

Finish(op, r) ==
  /\ w' = r.s.w
  /\ store' = r.s.store
  /\ ret' = [op |-> op, len |-> 0, n |-> 0, err |-> r.err, calls |-> r.s.calls,
             flushes |-> r.s.flushes]
  /\ h' = [h EXCEPT !.failed = @ \/ SomeFailed(r.s.calls),
                    !.uploaded = @ \/ FlushUploads(r.s.calls) # {}]
  /\ UNCHANGED <<ops, hung, pool>>

DoClose ==
  /\ HasWriter
  /\ \E o \in Fates(Calls(Close(Start(store), NoFail))) :
       Finish("Close", Close(Start(store), o))

DoCancel ==
  /\ HasWriter
  /\ \E o \in Fates(Calls(Cancel(Start(store), NoFail))) :
       Finish("Cancel", Cancel(Start(store), o))

DoCommit ==
  /\ HasWriter
  /\ \E o \in Fates(Calls(Commit(Start(store), NoFail))) :
       Finish("Commit", Commit(Start(store), o))

Next == DoOpen \/ DoWrite \/ DoClose \/ DoCancel \/ DoCommit

Spec == Init /\ [][Next]_vars

(* A second specification starts from a store in which earlier writers     *)
(* left an upload in flight: <<10, 5>> is what remains after a writer      *)
(* wrote 10 bytes and was closed and a second, appending writer wrote 5    *)
(* more and was closed; <<10, 15, 5>> after 25 bytes and then 5; <<3>>     *)
(* after a single writer wrote 3 bytes and was closed.                     *)
PriorSizes == {<<3>>, <<10, 5>>, <<10, 15, 5>>}

RECURSIVE SumTo(_, _)
SumTo(sizes, k) == IF k = 0 THEN 0 ELSE sizes[k] + SumTo(sizes, k - 1)

PriorStore(sizes) ==
  [sessions |-> <<[Key |-> Key, status |-> "open",
                   parts |-> [i \in 1..Len(sizes) |->
                                [j \in 1..sizes[i] |-> SumTo(sizes, i - 1) + j]]]>>,
   object |-> [exists |-> FALSE, data |-> <<>>]]

InitResume ==
  /\ w = NoWriter
  /\ store \in {PriorStore(sizes) : sizes \in PriorSizes}
  /\ ret = [op |-> "none", len |-> 0, n |-> 0, err |-> NoErr, calls |-> <<>>,
            flushes |-> <<>>]
  /\ h = NoHistory
  /\ ops = [opens |-> MaxOpens - 1, writes |-> 0]
  /\ hung = FALSE
  /\ pool = PoolInit

SpecResume == InitResume /\ [][Next]_vars

(* A third specification starts from stores that exercise the listings:    *)
(* an upload in flight under a longer key only; the same before an upload  *)
(* of the key; more uploads in flight than ListMulti's pages hold, the     *)
(* upload of the key last; an upload of more parts than a page holds.      *)
OtherKey == <<"a", "b">>

PriorSession(key, sizes) ==
  [Key |-> key, status |-> "open",
   parts |-> [i \in 1..Len(sizes) |->
                [j \in 1..sizes[i] |-> SumTo(sizes, i - 1) + j]]]

ListingSessions ==
  { <<PriorSession(OtherKey, <<5>>)>>,
    <<PriorSession(OtherKey, <<5>>), PriorSession(Key, <<10, 5>>)>>,
    [i \in 1..(MAX_TYR_TIMES * UploadsPageSize + 1) |->
       IF i <= MAX_TYR_TIMES * UploadsPageSize
       THEN PriorSession(OtherKey, <<>>) ELSE PriorSession(Key, <<10>>)],
    <<PriorSession(Key, <<10, 10, 10, 5>>)>> }

InitListing ==
  /\ w = NoWriter
  /\ store \in {[sessions |-> ss, object |-> [exists |-> FALSE, data |-> <<>>]] :
                  ss \in ListingSessions}
  /\ ret = [op |-> "none", len |-> 0, n |-> 0, err |-> NoErr, calls |-> <<>>,
            flushes |-> <<>>]
  /\ h = NoHistory
  /\ ops = [opens |-> MaxOpens - 1, writes |-> 0]
  /\ hung = FALSE
  /\ pool = PoolInit

SpecListing == InitListing /\ [][Next]_vars

(* A fourth specification runs the holders of the buffer pool, from the    *)
(* state New leaves.                                                       *)
NextPool ==
  \/ \E x \in Holders : GetBuf(x)
  \/ \E x \in Holders : UseBuf(x)
  \/ \E x \in Holders : PutBufCopy(x)
  \/ \E x \in Holders : PutBufPut(x)
  \/ PoolDrop

SpecPool == Init /\ [][NextPool]_vars

-----------------------------------------------------------------------------
(* Properties                                                              *)

WriterOps == {"Write", "Close", "Commit", "Cancel"}

CommitOk == ret.op = "Commit" /\ ret.err = NoErr

(* The part list a successful Commit handed to CompleteMultiUpload, and    *)
(* the sizes of those parts in the store.                                  *)
Submitted == ret.calls[Len(ret.calls)].parts

SubmittedSizes == [i \in 1..Len(Submitted) |-> Len(Submitted[i].Etag)]

RECURSIVE SumSeq(_)
SumSeq(q) == IF Len(q) = 0 THEN 0 ELSE q[1] + SumSeq(Tail(q))

FlagCount(wr) ==
  (IF wr.closed THEN 1 ELSE 0) + (IF wr.committed THEN 1 ELSE 0)
    + (IF wr.cancelled THEN 1 ELSE 0)

(* C1: in every reachable state at most one of closed, committed,          *)
(* cancelled is true.                                                      *)
C1_AtMostOneFlag == w # NoWriter => FlagCount(w) <= 1

(* C2: once a terminal flag is set, every later Write, Close, Commit or    *)
(* Cancel returns an error and issues no client call.                      *)
C2_TerminalOpsFail ==
  [][(w # NoWriter /\ Terminal(w) /\ ret'.op \in WriterOps)
       => (ret'.err # NoErr /\ ret'.calls = <<>>)]_vars

(* C3: Write on a closed, committed or cancelled writer returns 0 and the  *)
(* error of that terminal state, and leaves size, parts, both buffers and  *)
(* the session unchanged.                                                  *)
StateError(wr) ==
  IF wr.closed THEN "already closed"
  ELSE IF wr.committed THEN "already committed"
  ELSE "already cancelled"

C3_WriteRejected ==
  [][(w # NoWriter /\ Terminal(w) /\ ret'.op = "Write")
       => /\ ret'.n = 0
          /\ ret'.err = StateError(w)
          /\ ret'.calls = <<>>
          /\ w' = w
          /\ store' = store]_vars

C3_Witness ==
  /\ w # NoWriter /\ w.cancelled /\ ~w.closed /\ ~w.committed
  /\ ret.op = "Write" /\ ret.err = "already cancelled" /\ ret.n = 0
  /\ Len(w.readyPart) > 0

(* C4: after a Commit that returns success, the part list submitted to     *)
(* CompleteMultiUpload has the part numbers 1, 2, ..., k in that order.    *)
C4_PartNumbersContiguous ==
  CommitOk => \A i \in 1..Len(Submitted) : Submitted[i].PartNumber = i

(* C5: after a Commit that returns success, every part submitted to        *)
(* Complete except the last has size >= minChunkSize.                      *)
C5_SizeFloor ==
  CommitOk => \A i \in 1..(Len(Submitted) - 1) : SubmittedSizes[i] >= minChunkSize

(* C6: for a fresh writer and no client failure, the part sizes after      *)
(* Commit depend only on the number N of bytes written, not on how the     *)
(* bytes were split across Write calls: N < 2C gives one part of N bytes   *)
(* (none for N = 0), otherwise N \div C - 1 parts of C bytes and a last    *)
(* part of C + N % C bytes.                                                *)
SizesOf(N, C) ==
  IF N = 0 THEN <<>>
  ELSE IF N < 2 * C THEN <<N>>
  ELSE [i \in 1..(N \div C) |-> IF i < N \div C THEN C ELSE C + (N % C)]

FreshNoFailure == w # NoWriter /\ ~h.apd /\ ~h.failed

C6_SplitIndependent ==
  (CommitOk /\ FreshNoFailure) => SubmittedSizes = SizesOf(h.sumN, ChunkSize)

C6_Witness ==
  CommitOk /\ FreshNoFailure /\ h.writes = 3 /\ h.sumN = 25

(* C7: Size() equals the writer's initial size plus the byte counts         *)
(* returned by its Write calls, also after a Write that returned a flush   *)
(* error; no other operation changes it.                                   *)
C7_SizeAccounting ==
  (w # NoWriter /\ ~hung) => Size(w) = h.initSize + h.sumN

C7_Witness ==
  /\ w # NoWriter /\ ret.op = "Write" /\ ret.n > 0
  /\ ret.err \in {"transport", "No Etag Header"}
  /\ Size(w) = h.initSize + h.sumN

(* C8: a resumed writer whose only known part is smaller than minChunkSize *)
(* carries out the repair once: no Write consumes bytes and no part is     *)
(* uploaded before it, its calls come before any UploadPart of the same    *)
(* Write, and no Write after it issues a repair call again.                *)
SmallSolePart ==
  w # NoWriter /\ h.apd /\ Len(h.initParts) = 1 /\ h.initParts[1] < minChunkSize

RepairCalls(calls) ==
  {i \in 1..Len(calls) :
     calls[i].call \in {"CompleteMultiUpload", "InitMultiUpload", "GetObject",
                        "GetObjectRange"}}

C8_RepairFirst ==
  SmallSolePart =>
    /\ h.repairs <= 1
    /\ (h.uploaded \/ h.sumN > 0) => h.repairs = 1
    /\ (ret.op = "Write" /\ ret.err = NoErr) => h.repairs = 1
    /\ ret.op = "Write" =>
         \A i \in RepairCalls(ret.calls), j \in FlushUploads(ret.calls) : i < j

C8_NotRepeated ==
  (SmallSolePart /\ h.repairs = 1 /\ ret'.op = "Write") => RepairCalls(ret'.calls) = {}

C8_RepairOnce == []C8_RepairFirst /\ [][C8_NotRepeated]_vars

C8_Witness ==
  /\ SmallSolePart /\ h.repairs = 1 /\ h.writes = 2
  /\ ret.op = "Write" /\ ret.err = NoErr /\ ret.n > 0 /\ h.uploaded

(* C9: for such a writer, after the repair, W more bytes and a successful  *)
(* Commit, the sizes of the completed parts add up to S + W.               *)
C9_TotalSize ==
  (SmallSolePart /\ h.repairs = 1 /\ CommitOk)
    => SumSeq(SubmittedSizes) = h.initParts[1] + h.sumN

(* C10: a fresh writer that gets 25 bytes in one Write and is committed    *)
(* submits parts of sizes 10, 10, 5 (chunkSize = minChunkSize = 10).       *)
ScenarioA ==
  CommitOk /\ FreshNoFailure /\ h.writes = 1 /\ h.sumN = 25

C10_ScenarioA == ScenarioA => SubmittedSizes = <<10, 10, 5>>

(* C10 as amended: the parts have sizes 10 and 15.                         *)
C10_ScenarioA_Merged == ScenarioA => SubmittedSizes = <<10, 15>>

C10_Witness == ScenarioA /\ Len(Submitted) = 2 /\ ChunkSize = 10 /\ minChunkSize = 10

(* C11: a fresh writer that got fewer than chunkSize bytes in total and    *)
(* is committed issues exactly one UploadPart, with part number 1 and the  *)
(* size of the bytes written, and Complete is called with that one part.   *)
ScenarioB ==
  CommitOk /\ FreshNoFailure /\ h.sumN > 0 /\ h.sumN < ChunkSize

C11_SinglePart ==
  [][ScenarioB' =>
       /\ ~h.uploaded
       /\ Len(ret'.calls) = 2
       /\ ret'.calls[1].call = "UploadPart"
       /\ ret'.calls[1].partNumber = 1
       /\ ret'.calls[1].size = h'.sumN
       /\ ret'.calls[2].call = "CompleteMultiUpload"
       /\ ret'.calls[2].parts =
            <<[PartNumber |-> 1, Etag |-> [i \in 1..h'.sumN |-> i]]>>]_vars

C11_Witness ==
  ScenarioB /\ h.sumN = 5 /\ SubmittedSizes = <<5>> /\ Len(ret.calls) = 2

(* C12: Cancel on an open writer invokes AbortMultiUpload for the writer's *)
(* session; afterwards no operation of that writer invokes                 *)
(* CompleteMultiUpload and every Write fails with a state error.           *)
StateErrors == {"already closed", "already committed", "already cancelled"}

C12_CancelAborts ==
  [][(w # NoWriter /\ ret'.op \in WriterOps) =>
       /\ (~Terminal(w) /\ ret'.op = "Cancel") =>
            /\ w'.cancelled
            /\ Len(ret'.calls) = 1
            /\ ret'.calls[1].call = "AbortMultiUpload"
            /\ ret'.calls[1].uploadId = w.multi
       /\ w.cancelled =>
            /\ \A i \in 1..Len(ret'.calls) : ret'.calls[i].call # "CompleteMultiUpload"
            /\ ret'.op = "Write" =>
                 (ret'.n = 0 /\ ret'.err \in StateErrors /\ ret'.calls = <<>>)]_vars

C12_Witness ==
  /\ w # NoWriter /\ w.cancelled /\ ~w.closed /\ ~w.committed
  /\ h.sumN = 10
  /\ store.sessions[w.multi].status = "aborted"
  /\ ret.op = "Commit" /\ ret.err = "already cancelled" /\ ret.calls = <<>>

(* C13: for a resumed writer whose only part is smaller than minChunkSize, *)
(* the repair calls GetObject and not the copy, empties the parts list and *)
(* leaves the whole old content in the ready buffer, the new bytes after   *)
(* it.                                                                     *)
C13_RefetchWhole ==
  [][(SmallSolePart /\ h.repairs = 0 /\ ret'.op = "Write" /\ RepairDone(ret'.calls)) =>
       /\ \E i \in 1..Len(ret'.calls) : ret'.calls[i].call = "GetObject"
       /\ \A i \in 1..Len(ret'.calls) : ret'.calls[i].call # "GetObjectRange"
       /\ FlushUploads(ret'.calls) = {} =>
            /\ w'.parts = <<>>
            /\ w'.readyPart \o w'.pendingPart
                 = [i \in 1..(Size(w) + ret'.n) |-> i]]_vars

(* C14: when the repair runs on a writer whose size is >= minChunkSize, it *)
(* copies the whole object into part 1 of the new session and the parts    *)
(* list becomes that one part: number 1, size of the old object.           *)
CopyRepair ==
  w # NoWriter /\ ~Terminal(w) /\ NeedsRepair(w) /\ Size(w) >= minChunkSize

C14_CopyIntoPartOne ==
  [][(CopyRepair /\ ret'.op = "Write" /\ RepairDone(ret'.calls)) =>
       /\ Len(w'.parts) >= 1
       /\ w'.parts[1].PartNumber = 1
       /\ w'.parts[1].Etag = store'.object.data
       /\ w'.parts[1].Size = Len(store'.object.data)
       /\ FlushUploads(ret'.calls) = {} => Len(w'.parts) = 1]_vars

(* C15: when CompleteMultiUpload fails in Commit, Commit then issues        *)
(* AbortMultiUpload for the same session and returns the error of the      *)
(* Complete, whether or not the Abort fails.                               *)
FailedCompletes(calls) ==
  {i \in 1..Len(calls) : calls[i].call = "CompleteMultiUpload" /\ ~calls[i].ok}

C15_AbortAfterFailedComplete ==
  [][(w # NoWriter /\ ret'.op = "Commit" /\ FailedCompletes(ret'.calls) # {}) =>
       \A i \in FailedCompletes(ret'.calls) :
          /\ i = Len(ret'.calls) - 1
          /\ ret'.calls[i].uploadId = w.multi
          /\ ret'.calls[i + 1].call = "AbortMultiUpload"
          /\ ret'.calls[i + 1].uploadId = w.multi
          /\ ret'.err = ret'.calls[i].err]_vars

C15_Witness ==
  /\ ret.op = "Commit" /\ Len(ret.calls) >= 2
  /\ ret.calls[Len(ret.calls) - 1].call = "CompleteMultiUpload"
  /\ ~ret.calls[Len(ret.calls) - 1].ok
  /\ ret.calls[Len(ret.calls)].call = "AbortMultiUpload"
  /\ ~ret.calls[Len(ret.calls)].ok
  /\ ret.calls[Len(ret.calls)].err # ret.err
  /\ ret.err = ret.calls[Len(ret.calls) - 1].err

(* C16: after Cancel, no operation of that writer issues an UploadPart.    *)
C16_NoUploadAfterCancel ==
  [][(w # NoWriter /\ w.cancelled /\ ret'.op \in WriterOps) =>
       \A i \in 1..Len(ret'.calls) : ret'.calls[i].call # "UploadPart"]_vars

(* C17: Close on an open writer sets closed, issues at most one UploadPart *)
(* and no other call; the session keeps its status and its parts, and has  *)
(* the part that was flushed.                                              *)
C17_CloseOnlyFlushes ==
  [][(w # NoWriter /\ ~Terminal(w) /\ ret'.op = "Close") =>
       /\ w'.closed /\ ~w'.committed /\ ~w'.cancelled
       /\ Len(ret'.calls) <= 1
       /\ \A i \in 1..Len(ret'.calls) : ret'.calls[i].call = "UploadPart"
       /\ Len(store'.sessions) = Len(store.sessions)
       /\ \A id \in 1..Len(store.sessions) :
            /\ store'.sessions[id].status = store.sessions[id].status
            /\ DOMAIN store.sessions[id].parts \subseteq DOMAIN store'.sessions[id].parts
       /\ store'.object = store.object
       /\ (ret'.err = NoErr /\ ret'.calls # <<>>) =>
            /\ Len(w'.parts) = Len(w.parts) + 1
            /\ store'.sessions[w.multi].parts[Len(w'.parts)]
                 = w'.parts[Len(w'.parts)].Etag]_vars

C17_Witness ==
  /\ w # NoWriter /\ w.closed /\ ~w.committed /\ ~w.cancelled
  /\ ret.op = "Close" /\ ret.err = NoErr /\ Len(ret.calls) = 1
  /\ store.sessions[w.multi].status = "open"
  /\ Len(w.parts) = 2 /\ DOMAIN store.sessions[w.multi].parts = {1, 2}

(* C18: an open with append = true when no upload in flight has the key   *)
(* fails, with path-not-found when the listing went through, creates no    *)
(* writer and issues no call but the listing; an upload whose key only     *)
(* starts with the key is no match.                                        *)
AppendOpen ==
  ret.op = "Writer" /\ ret.calls # <<>> /\ ret.calls[1].call = "ListMultiResult"

KeyInFlight(st) ==
  \E id \in 1..Len(st.sessions) :
     st.sessions[id].status = "open" /\ st.sessions[id].Key = Key

LongerKeyInFlight(st) ==
  \E id \in 1..Len(st.sessions) :
     /\ st.sessions[id].status = "open"
     /\ st.sessions[id].Key # Key
     /\ HasPrefix(st.sessions[id].Key, Key)

C18_NoMatchNotFound ==
  [][(AppendOpen' /\ ~KeyInFlight(store)) =>
       /\ ret'.err # NoErr
       /\ w' = w
       /\ store' = store
       /\ \A i \in 1..Len(ret'.calls) : ret'.calls[i].call = "ListMultiResult"
       /\ ~SomeFailed(ret'.calls) => ret'.err = "PathNotFound"]_vars

C18_Witness ==
  /\ AppendOpen /\ ret.err = "PathNotFound" /\ w = NoWriter
  /\ ~KeyInFlight(store) /\ LongerKeyInFlight(store)

(* C19: an open with append = true whose calls all go through finds the    *)
(* upload of the key whenever one is in flight, and the writer holds every *)
(* part of that upload.                                                    *)
C19_ListsEverything ==
  (AppendOpen /\ ~SomeFailed(ret.calls)) =>
    /\ KeyInFlight(store) => ret.err = NoErr
    /\ ret.err = NoErr =>
         {w.parts[i].PartNumber : i \in 1..Len(w.parts)}
           = DOMAIN store.sessions[w.multi].parts

(* C20: the parts a writer opened with append = true holds are in          *)
(* ascending part-number order.                                            *)
C20_PartsAscending ==
  (AppendOpen /\ ret.err = NoErr) =>
    \A i \in 1..(Len(w.parts) - 1) : w.parts[i].PartNumber < w.parts[i + 1].PartNumber

(* C21: between operations the ready buffer and the pending buffer each    *)
(* hold at most chunkSize bytes.                                           *)
C21_BuffersBounded ==
  w # NoWriter =>
    (Len(w.readyPart) <= ChunkSize /\ Len(w.pendingPart) <= ChunkSize)

(* C22: the session of an open writer is an upload in flight: initiated,   *)
(* neither completed nor aborted.                                          *)
C22_SessionInFlight ==
  (w # NoWriter /\ ~Terminal(w)) => InFlight([store |-> store], w.multi)

(* C23: when a step of the repair fails, the Write returns that error and  *)
(* 0, leaves both buffers and Size() as they were and issues no UploadPart *)
(* for the caller's bytes.                                                 *)
FirstFailed(calls) ==
  calls[CHOOSE i \in 1..Len(calls) :
          ~calls[i].ok /\ \A j \in 1..(i - 1) : calls[j].ok]

C23_RepairFailureFatal ==
  [][(w # NoWriter /\ ~Terminal(w) /\ NeedsRepair(w)
        /\ ret'.op = "Write" /\ ~RepairDone(ret'.calls)) =>
       /\ SomeFailed(ret'.calls)
       /\ ret'.err = FirstFailed(ret'.calls).err
       /\ ret'.n = 0
       /\ ~hung'
       /\ w'.readyPart = w.readyPart
       /\ w'.pendingPart = w.pendingPart
       /\ Size(w') = Size(w)
       /\ FlushUploads(ret'.calls) = {}]_vars

C23_Witness ==
  /\ SmallSolePart /\ ~Terminal(w) /\ h.repairs = 0 /\ h.writes = 1
  /\ ret.op = "Write" /\ ret.n = 0 /\ ret.len = 10
  /\ Len(ret.calls) = 3 /\ ret.calls[3].call = "GetObject" /\ ~ret.calls[3].ok
  /\ ret.err = ret.calls[3].err
  /\ w.readyPart = <<>> /\ Size(w) = h.initSize

(* C24: when the UploadPart of a flushPart fails, the operation returns    *)
(* that error, no call follows it, and the parts sequence is what it was   *)
(* before that flushPart: what the operation started with (or the repair   *)
(* left) and the parts flushed before.                                     *)
FailedFlushes(calls) == {i \in FlushUploads(calls) : ~calls[i].ok}

PartsBeforeFlushes(wr, calls) ==
  IF ~RepairDone(calls) THEN Len(wr.parts)
  ELSE IF \E i \in 1..Len(calls) : calls[i].call = "GetObject" THEN 0 ELSE 1

C24_FlushFailureKeepsParts ==
  [][(w # NoWriter /\ ret'.op \in WriterOps /\ FailedFlushes(ret'.calls) # {}) =>
       /\ \A i \in FailedFlushes(ret'.calls) :
             i = Len(ret'.calls) /\ ret'.err = ret'.calls[i].err
       /\ Len(w'.parts) = PartsBeforeFlushes(w, ret'.calls)
            + Cardinality({j \in FlushUploads(ret'.calls) : ret'.calls[j].ok})
       /\ ~RepairDone(ret'.calls) =>
            SubSeq(w'.parts, 1, Len(w.parts)) = w.parts]_vars

C24_Witness ==
  /\ w # NoWriter /\ ret.op = "Close" /\ ret.err = "No Etag Header"
  /\ Len(ret.calls) = 1 /\ Len(w.parts) = 1
  /\ DOMAIN store.sessions[w.multi].parts = {1, 2}

(* C25: every UploadPart of a flush carries the number len(parts) + 1, and *)
(* that number is not the number of a part the writer lists or, for a      *)
(* writer just resumed, of a part its session holds.                       *)
C25_NextNumberFree ==
  /\ w # NoWriter =>
       \A j \in 1..Len(w.parts) : w.parts[j].PartNumber # Len(w.parts) + 1
  /\ (AppendOpen /\ ret.err = NoErr) =>
       Len(w.parts) + 1 \notin DOMAIN store.sessions[w.multi].parts

C25_NumberIsNext ==
  (w # NoWriter /\ ret'.op \in WriterOps) =>
    \A i \in FlushUploads(ret'.calls) :
       ret'.calls[i].partNumber =
         PartsBeforeFlushes(w, ret'.calls) + 1
           + Cardinality({j \in FlushUploads(ret'.calls) : j < i /\ ret'.calls[j].ok})

C25_PartNumbers == []C25_NextNumberFree /\ [][C25_NumberIsNext]_vars

(* C26: when a writer has got at least chunkSize bytes and no client call  *)
(* of it failed, Close or Commit uploads a part, and of at least chunkSize *)
(* bytes.                                                                  *)
C26_LastPartFull ==
  [][(w # NoWriter /\ ~Terminal(w) /\ ret'.op \in {"Close", "Commit"}
        /\ ~h'.failed /\ h.sumN >= ChunkSize) =>
       /\ FlushUploads(ret'.calls) # {}
       /\ \A i \in FlushUploads(ret'.calls) : ret'.calls[i].size >= ChunkSize]_vars

C26_Witness ==
  /\ w # NoWriter /\ ret.op = "Close" /\ ret.err = NoErr /\ ~h.failed
  /\ h.apd /\ h.sumN = 15 /\ h.writes = 2
  /\ Len(ret.calls) = 1 /\ ret.calls[1].size = 15

(* C27: every buffer in the pool has length chunkSize and holds zero bytes *)
(* only, whatever buffer was passed to putbuf, so getbuf returns such a    *)
(* buffer.                                                                 *)
C27_PooledZeroed ==
  \A id \in pool.idle :
     /\ Len(pool.mem[id]) = ChunkSize
     /\ \A i \in 1..Len(pool.mem[id]) : pool.mem[id][i] = 0

C29_WriteFlushesFull ==
  [][ret'.op = "Write" =>
       \A i \in 1..Len(ret'.flushes) :
          /\ ret'.flushes[i].pending = ChunkSize
          /\ ret'.flushes[i].ready >= ChunkSize]_vars

C29_Witness ==
  /\ ret.op = "Write" /\ ret.err = NoErr /\ ret.len = 25
  /\ ret.flushes = <<[ready |-> 10, pending |-> 10]>>
  /\ Len(w.readyPart) = 10 /\ Len(w.pendingPart) = 5

(* C30: every Write on an open writer returns.                             *)
C30_WriteReturns == ~hung

(* C31: when the Commit of a fresh writer succeeds, the sizes of the parts *)
(* handed to CompleteMultiUpload add up to Size().                         *)
C31_CommitSubmitsAll ==
  (CommitOk /\ ~h.apd) => SumSeq(SubmittedSizes) = Size(w)

(* C32: a Commit whose flush fails returns that error, calls neither       *)
(* CompleteMultiUpload nor AbortMultiUpload, leaves the writer open with   *)
(* the parts list it had; and the next Commit succeeds when none of its    *)
(* client calls fails for transport reasons.                               *)
CommitFlushFailed(r) == r.op = "Commit" /\ FailedFlushes(r.calls) # {}

C32_FlushFailureLeavesOpen ==
  (w # NoWriter /\ CommitFlushFailed(ret')) =>
    /\ ret'.err = ret'.calls[Len(ret'.calls)].err
    /\ \A i \in 1..Len(ret'.calls) :
          ret'.calls[i].call \notin {"CompleteMultiUpload", "AbortMultiUpload"}
    /\ ~w'.committed /\ ~Terminal(w')
    /\ w'.parts = w.parts

C32_RetryCommits ==
  (w # NoWriter /\ CommitFlushFailed(ret)) =>
    /\ Commit(Start(store), NoFail).err = NoErr
    /\ Commit(Start(store), NoFail).s.w.committed

C32_CommitFlushFailure ==
  []C32_RetryCommits /\ [][C32_FlushFailureLeavesOpen]_vars

TypeOK ==
  /\ ops.opens \in 0..MaxOpens
  /\ hung \in BOOLEAN
  /\ w # NoWriter => w.size \in 0..MaxTotal

====
